---- MODULE Spec2Model ----
(***************************************************************************)
(* Model of src-tauri/src/lib.rs: the native shell of the desktop app.     *)
(* The program owns no data; its state is the framework-owned state it     *)
(* drives through the host API: the main window (present, visible,         *)
(* minimized, focused), the set of registered global shortcuts, the tray   *)
(* icon, the `log` facade's logger, and the process itself.  Every         *)
(* fallible framework call is an input of the handler that makes it (it    *)
(* returns Ok or Err), and each handler records the calls it made, in      *)
(* order, with their results.                                              *)
(***************************************************************************)
EXTENDS Naturals, Sequences, FiniteSets

VARIABLES
    phase,        \* "init" | "running" | "exited" | "setup_failed"
    exitCode,     \* <<>> while the process lives, <<code>> once app.exit ran
    win,          \* the "main" webview window
    registered,   \* the shortcuts registered with the OS
    tray,         \* the tray icon built by setup
    loggerAttached, \* whether a logger is installed behind the log facade
    logOutput,    \* the records that reached the log output
    quitRequested, \* whether a quit-requested event reached the frontend
    lastOp,       \* the handler (or outside event) that made the last step
    calls,        \* the framework calls it made, in order
    results,      \* their results (TRUE: Ok / Some, FALSE: Err / None)
    before        \* the window as it was when lastOp started

vars == <<phase, exitCode, win, registered, tray, loggerAttached, logOutput,
          quitRequested, lastOp, calls, results, before>>

---------------------------------------------------------------------------
(* Values *)

CtrlShiftA == "Ctrl+Shift+A"
OtherShortcut == "Other"
Shortcuts == {CtrlShiftA, OtherShortcut}
ShortcutStates == {"Pressed", "Released"}

MenuIds == {"show", "timer", "quit", "other"}

TrayEvents ==
    { [kind |-> "Click", button |-> b, button_state |-> s] :
          b \in {"Left", "Right"}, s \in {"Up", "Down"} }
    \cup { [kind |-> "DoubleClick", button |-> "Left", button_state |-> "Up"],
           [kind |-> "Enter", button |-> "None", button_state |-> "None"] }

ExitCode == 0

WarnRegister == "WARN Failed to register global shortcut Ctrl+Shift+A"

Call(fn) == [fn |-> fn, ev |-> "", payload |-> ""]
EmitCall(ev, payload) == [fn |-> "emit", ev |-> ev, payload |-> payload]

NoTray == [built |-> FALSE, menu |-> <<>>, show_menu_on_left_click |-> TRUE,
           tooltip |-> ""]

NoOp == [op |-> "none", arg |-> <<>>]

Windows == [exists : BOOLEAN, visible : BOOLEAN, minimized : BOOLEAN,
            focused : BOOLEAN]

---------------------------------------------------------------------------
(* The window API: each call changes the window only when it returns Ok. *)

WindowShow(w, ok) == IF ok THEN [w EXCEPT !.visible = TRUE] ELSE w

WindowHide(w, ok) ==
    IF ok THEN [w EXCEPT !.visible = FALSE, !.focused = FALSE] ELSE w

WindowUnminimize(w, ok) == IF ok THEN [w EXCEPT !.minimized = FALSE] ELSE w

WindowSetFocus(w, ok) == IF ok THEN [w EXCEPT !.focused = TRUE] ELSE w

---------------------------------------------------------------------------
(* The free functions. Each returns the window afterwards, the calls made  *)
(* and their results. r gives the result of every call the function may    *)
(* make.                                                                   *)

ToggleResults == [is_visible : BOOLEAN, hide : BOOLEAN, show : BOOLEAN,
                  unminimize : BOOLEAN, set_focus : BOOLEAN]

ShowResults == [show : BOOLEAN, unminimize : BOOLEAN, set_focus : BOOLEAN,
                emit : BOOLEAN]

(* What a handler did: the window afterwards, the calls it made, their   *)
(* results, and the exit code if it ended the process (<<>> if not).       *)
Out(w, cs, rs) == [win |-> w, calls |-> cs, results |-> rs, exit |-> <<>>]

Nothing(w) == Out(w, <<>>, <<>>)

(* Variant: the visible branch is missing, every press shows the window. *)
toggle_window_visibility_never_hides(w, r) ==
    IF ~w.exists
    THEN Out(w, <<Call("get_webview_window")>>, <<FALSE>>)
    ELSE IF ~r.is_visible
    THEN Out(w, <<Call("get_webview_window"), Call("is_visible")>>,
             <<TRUE, FALSE>>)
    ELSE Out(WindowSetFocus(
                 WindowUnminimize(WindowShow(w, r.show), r.unminimize),
                 r.set_focus),
             <<Call("get_webview_window"), Call("is_visible"), Call("show"),
               Call("unminimize"), Call("set_focus")>>,
             <<TRUE, TRUE, r.show, r.unminimize, r.set_focus>>)

toggle_window_visibility(w, r) ==
    IF ~w.exists
    THEN Out(w, <<Call("get_webview_window")>>, <<FALSE>>)
    ELSE IF ~r.is_visible
    THEN Out(w, <<Call("get_webview_window"), Call("is_visible")>>,
             <<TRUE, FALSE>>)
    ELSE IF w.visible
    THEN Out(WindowHide(w, r.hide),
             <<Call("get_webview_window"), Call("is_visible"), Call("hide")>>,
             <<TRUE, TRUE, r.hide>>)
    ELSE Out(WindowSetFocus(
                 WindowUnminimize(WindowShow(w, r.show), r.unminimize),
                 r.set_focus),
             <<Call("get_webview_window"), Call("is_visible"), Call("show"),
               Call("unminimize"), Call("set_focus")>>,
             <<TRUE, TRUE, r.show, r.unminimize, r.set_focus>>)

(* app.emit(event, payload) after what s did. *)
ThenEmit(s, ev, payload, ok) ==
    [s EXCEPT !.calls = Append(@, EmitCall(ev, payload)),
              !.results = Append(@, ok)]

(* Variant: the results are propagated, a failed show ends the function. *)
show_window_stops_on_error(w, r) ==
    IF ~w.exists
    THEN Out(w, <<Call("get_webview_window")>>, <<FALSE>>)
    ELSE IF ~r.show
    THEN Out(w, <<Call("get_webview_window"), Call("show")>>, <<TRUE, FALSE>>)
    ELSE Out(WindowSetFocus(
                 WindowUnminimize(WindowShow(w, r.show), r.unminimize),
                 r.set_focus),
             <<Call("get_webview_window"), Call("show"), Call("unminimize"),
               Call("set_focus")>>,
             <<TRUE, r.show, r.unminimize, r.set_focus>>)

show_window(w, r) ==
    IF ~w.exists
    THEN Out(w, <<Call("get_webview_window")>>, <<FALSE>>)
    ELSE Out(WindowSetFocus(
                 WindowUnminimize(WindowShow(w, r.show), r.unminimize),
                 r.set_focus),
             <<Call("get_webview_window"), Call("show"), Call("unminimize"),
               Call("set_focus")>>,
             <<TRUE, r.show, r.unminimize, r.set_focus>>)

(* Variant: the emit sits inside the window lookup. *)
navigate_to_view_needs_window(w, view, r) ==
    IF w.exists
    THEN ThenEmit(show_window(w, r), "navigate-to-view", view, r.emit)
    ELSE show_window(w, r)

navigate_to_view(w, view, r) ==
    ThenEmit(show_window(w, r), "navigate-to-view", view, r.emit)

---------------------------------------------------------------------------
(* The callbacks registered with the framework. *)

(* Variant: the state of the event is not looked at. *)
with_handler_any_state(w, shortcut, state, r) ==
    IF shortcut = CtrlShiftA
    THEN toggle_window_visibility(w, r)
    ELSE Nothing(w)

with_handler(w, shortcut, state, r) ==
    IF shortcut = CtrlShiftA /\ state = "Pressed"
    THEN toggle_window_visibility(w, r)
    ELSE Nothing(w)

(* Variant: "quit" exits at once instead of asking the frontend. *)
on_menu_event_quit_exits(w, id, r) ==
    CASE id = "show"  -> show_window(w, r)
      [] id = "timer" -> navigate_to_view(w, "timer", r)
      [] id = "quit"  -> [Nothing(w) EXCEPT !.calls = <<Call("exit")>>,
                                            !.results = <<TRUE>>,
                                            !.exit = <<ExitCode>>]
      [] OTHER -> Nothing(w)

on_menu_event(w, id, r) ==
    CASE id = "show"  -> show_window(w, r)
      [] id = "timer" -> navigate_to_view(w, "timer", r)
      [] id = "quit"  ->
            ThenEmit(show_window(w, r), "quit-requested", "null", r.emit)
      [] OTHER -> Nothing(w)

(* Variant: the button state is not matched, press and release both act. *)
on_tray_icon_event_any_left_click(w, event, r) ==
    IF event.kind = "Click" /\ event.button = "Left"
    THEN show_window(w, r)
    ELSE Nothing(w)

(* Variant: the left click toggles the window as the shortcut does. *)
on_tray_icon_event_toggles(w, event, r) ==
    IF event.kind = "Click" /\ event.button = "Left"
       /\ event.button_state = "Up"
    THEN toggle_window_visibility(w,
             [is_visible |-> TRUE, hide |-> r.show, show |-> r.show,
              unminimize |-> r.unminimize, set_focus |-> r.set_focus])
    ELSE Nothing(w)

on_tray_icon_event(w, event, r) ==
    IF event.kind = "Click" /\ event.button = "Left"
       /\ event.button_state = "Up"
    THEN show_window(w, r)
    ELSE Nothing(w)

(* The events of a handler's trace that the frontend received. *)
Emitted(cs, rs) ==
    { cs[i].ev : i \in { j \in 1..Len(cs) : cs[j].fn = "emit" /\ rs[j] } }

---------------------------------------------------------------------------
(* quit_app: app.exit(0). *)

(* Variant: the command hides the window and leaves the process running. *)
quit_app_only_hides(w) ==
    Out(WindowHide(w, TRUE), <<Call("hide")>>, <<TRUE>>)

quit_app(w) ==
    [win |-> w, calls |-> <<Call("exit")>>, results |-> <<TRUE>>,
     exit |-> <<ExitCode>>]

---------------------------------------------------------------------------
(* The setup hook. It runs its steps in order; a step behind `?`, unwrap   *)
(* or expect that fails ends setup (and with it the process), after which  *)
(* no later step runs. s is the state setup has built so far.              *)

SetupInputs == [unregister_all : BOOLEAN, register : BOOLEAN,
                debug_assertions : BOOLEAN, log_plugin : BOOLEAN,
                target_os_windows : BOOLEAN, apply_acrylic : BOOLEAN,
                menu_items : [1..3 -> BOOLEAN], menu : BOOLEAN,
                icon : BOOLEAN, build : BOOLEAN]

MenuItemIds == <<"show", "timer", "quit">>

(* A call whose result is discarded or only inspected. *)
Swallowed(s, fn, ok) ==
    IF s.failed THEN s
    ELSE [s EXCEPT !.calls = Append(@, Call(fn)), !.results = Append(@, ok)]

(* A call behind `?`, unwrap or expect. *)
Fatal(s, fn, ok) ==
    IF s.failed THEN s
    ELSE [s EXCEPT !.calls = Append(@, Call(fn)), !.results = Append(@, ok),
                   !.failed = ~ok]

(* log::warn!: the record reaches the output only through an installed    *)
(* logger; without one the facade discards it.                             *)
LogWarn(s, msg) ==
    IF s.failed THEN s
    ELSE [s EXCEPT !.calls = Append(@, Call("log::warn")),
                   !.results = Append(@, s.loggerAttached),
                   !.logOutput = IF s.loggerAttached THEN @ \cup {msg} ELSE @]

SetupUnregisterAll(s, in) ==
    LET t == Swallowed(s, "unregister_all", in.unregister_all)
    IN  [t EXCEPT !.registered = IF in.unregister_all THEN {} ELSE @]

(* Variant: the registration error is propagated with `?`. *)
SetupRegister_propagates(s, in) ==
    LET t == Fatal(s, "register", in.register)
    IN  [t EXCEPT !.registered =
                      IF in.register THEN @ \cup {CtrlShiftA} ELSE @]

SetupRegister(s, in) ==
    LET t == Swallowed(s, "register", in.register)
        u == [t EXCEPT !.registered =
                           IF in.register THEN @ \cup {CtrlShiftA} ELSE @]
    IN  IF in.register THEN u ELSE LogWarn(u, WarnRegister)

SetupLogPlugin(s, in) ==
    IF ~in.debug_assertions \/ s.failed THEN s
    ELSE [Fatal(s, "plugin(log)", in.log_plugin)
              EXCEPT !.loggerAttached = @ \/ in.log_plugin]

SetupWindow(s, in, w) ==
    LET t == Fatal(s, "get_webview_window", w.exists)
    IN  IF in.target_os_windows
        THEN Fatal(t, "apply_acrylic", in.apply_acrylic)
        ELSE t

SetupMenu(s, in) ==
    LET a == Fatal(s, "MenuItem::with_id", in.menu_items[1])
        b == Fatal(a, "MenuItem::with_id", in.menu_items[2])
        c == Fatal(b, "MenuItem::with_id", in.menu_items[3])
    IN  Fatal(c, "Menu::with_items", in.menu)

SetupTray(s, in) ==
    LET a == Fatal(s, "default_window_icon", in.icon)
        b == Fatal(a, "TrayIconBuilder::build", in.build)
    IN  IF b.failed THEN b
        ELSE [b EXCEPT !.tray = [built |-> TRUE, menu |-> MenuItemIds,
                                 show_menu_on_left_click |-> FALSE,
                                 tooltip |-> "ARISE"]]

setup(s, in, w) ==
    SetupTray(
      SetupMenu(
        SetupWindow(
          SetupLogPlugin(
            SetupRegister(SetupUnregisterAll(s, in), in),
            in),
          in, w),
        in),
      in)

---------------------------------------------------------------------------
(* The state machine. *)

Init ==
    /\ phase = "init"
    /\ exitCode = <<>>
    /\ win \in { w \in Windows :
                   /\ ~w.minimized
                   /\ w.focused => w.visible
                   /\ ~w.exists => ~w.visible }
    /\ registered \in SUBSET Shortcuts
    /\ tray = NoTray
    /\ loggerAttached = FALSE
    /\ logOutput = {}
    /\ quitRequested = FALSE
    /\ lastOp = NoOp
    /\ calls = <<>>
    /\ results = <<>>
    /\ before = win

(* What every step records of itself. *)
Record(op, arg, cs, rs) ==
    /\ lastOp' = [op |-> op, arg |-> arg]
    /\ calls' = cs
    /\ results' = rs
    /\ before' = win
    /\ quitRequested' = (quitRequested \/ "quit-requested" \in Emitted(cs, rs))

Setup ==
    /\ phase = "init"
    /\ \E in \in SetupInputs :
         LET s == setup([calls |-> <<>>, results |-> <<>>, failed |-> FALSE,
                         registered |-> registered,
                         loggerAttached |-> loggerAttached,
                         logOutput |-> logOutput, tray |-> tray], in, win)
         IN  /\ phase' = IF s.failed THEN "setup_failed" ELSE "running"
             /\ registered' = s.registered
             /\ loggerAttached' = s.loggerAttached
             /\ logOutput' = s.logOutput
             /\ tray' = s.tray
             /\ Record("setup", <<>>, s.calls, s.results)
    /\ UNCHANGED <<exitCode, win>>

Handler(op, arg, o) ==
    /\ win' = o.win
    /\ phase' = IF o.exit = <<>> THEN phase ELSE "exited"
    /\ exitCode' = IF o.exit = <<>> THEN exitCode ELSE o.exit
    /\ Record(op, arg, o.calls, o.results)
    /\ UNCHANGED <<registered, tray, loggerAttached, logOutput>>

ShortcutEvent ==
    /\ phase = "running"
    /\ \E shortcut \in registered, state \in ShortcutStates, r \in ToggleResults :
         Handler("shortcut", <<shortcut, state>>,
                 with_handler(win, shortcut, state, r))

MenuEvent ==
    /\ phase = "running"
    /\ tray.built
    /\ \E id \in MenuIds, r \in ShowResults :
         Handler("menu", <<id>>, on_menu_event(win, id, r))

TrayIconEvent ==
    /\ phase = "running"
    /\ tray.built
    /\ \E event \in TrayEvents, r \in ShowResults :
         Handler("tray", <<event.kind, event.button, event.button_state>>,
                 on_tray_icon_event(win, event, r))

QuitApp ==
    /\ phase = "running"
    /\ Handler("quit_app", <<>>, quit_app(win))

(* What happens to the window outside this code: the user minimizes it,    *)
(* it loses the focus, or it is destroyed.                                 *)
Outside(arg, w) ==
    /\ phase = "running"
    /\ win.exists
    /\ win' = w
    /\ Record("outside", <<arg>>, <<>>, <<>>)
    /\ UNCHANGED <<phase, exitCode, registered, tray, loggerAttached,
                   logOutput>>

UserMinimizes ==
    /\ win.visible /\ ~win.minimized
    /\ Outside("minimize", [win EXCEPT !.minimized = TRUE, !.focused = FALSE])

FocusLost ==
    /\ win.focused
    /\ Outside("blur", [win EXCEPT !.focused = FALSE])

MainWindowDestroyed ==
    Outside("destroy", [exists |-> FALSE, visible |-> FALSE,
                        minimized |-> FALSE, focused |-> FALSE])

Next ==
    \/ Setup
    \/ ShortcutEvent
    \/ MenuEvent
    \/ TrayIconEvent
    \/ QuitApp
    \/ UserMinimizes
    \/ FocusLost
    \/ MainWindowDestroyed

Spec == Init /\ [][Next]_vars

---------------------------------------------------------------------------
(* Vocabulary of the properties. *)

GetWindow == Call("get_webview_window")

ShowCalls == <<GetWindow, Call("show"), Call("unminimize"), Call("set_focus")>>

HideBranch == <<GetWindow, Call("is_visible"), Call("hide")>>

ShowBranch == <<GetWindow, Call("is_visible"), Call("show"),
                Call("unminimize"), Call("set_focus")>>

IsPress(o) == o.op = "shortcut" /\ o.arg = <<CtrlShiftA, "Pressed">>

IsLeftClick(o) == o.op = "tray" /\ o.arg = <<"Click", "Left", "Up">>

IsMenu(o, id) == o.op = "menu" /\ o.arg = <<id>>

(* The tray actions that show the window. *)
IsTrayShow(o) ==
    IsLeftClick(o) \/ IsMenu(o, "show") \/ IsMenu(o, "timer")
    \/ IsMenu(o, "quit")

RuntimeHandlers == {"shortcut", "menu", "tray"}

Ok(rs, i) == i <= Len(rs) /\ rs[i]

AllOk(rs) == \A i \in 1..Len(rs) : rs[i]

(* The press found the window and read its visibility. *)
Readable(rs) == Ok(rs, 1) /\ Ok(rs, 2)

(* The lookup, show, unminimize and set_focus of show_window succeeded. *)
ShowOk(rs) == Ok(rs, 1) /\ Ok(rs, 2) /\ Ok(rs, 3) /\ Ok(rs, 4)

Emits(cs) == { i \in 1..Len(cs) : cs[i].fn = "emit" }

Shown(w) == w.visible /\ ~w.minimized /\ w.focused

AllOkToggle == [is_visible |-> TRUE, hide |-> TRUE, show |-> TRUE,
                unminimize |-> TRUE, set_focus |-> TRUE]

AllOkShow == [show |-> TRUE, unminimize |-> TRUE, set_focus |-> TRUE,
              emit |-> TRUE]

(* What the handler of step o does on window w when no call fails. *)
Replay(o, w) ==
    CASE o.op = "shortcut" -> with_handler(w, o.arg[1], o.arg[2], AllOkToggle)
      [] o.op = "menu" -> on_menu_event(w, o.arg[1], AllOkShow)
      [] o.op = "tray" ->
            on_tray_icon_event(w, [kind |-> o.arg[1], button |-> o.arg[2],
                                   button_state |-> o.arg[3]], AllOkShow)
      [] OTHER -> Nothing(w)

---------------------------------------------------------------------------
(* C1, as stated: a Ctrl+Shift+A press that finds the main window and      *)
(* reads its visibility flips the visibility.                              *)
C1_PressFlipsVisibility ==
    (IsPress(lastOp) /\ Readable(results)) => win.visible = ~before.visible

(* C1, amended: such a press calls hide alone on a visible window, and     *)
(* show, unminimize, set_focus on a hidden one; the visibility is flipped  *)
(* when that hide or show succeeds, and two consecutive presses whose hide *)
(* and show succeed return the window to the visibility it had before the *)
(* first.                                                                  *)
C1_PressToggles ==
    /\ [](IsPress(lastOp) /\ Readable(results) =>
            /\ before.visible => calls = HideBranch
            /\ ~before.visible => calls = ShowBranch
            /\ Ok(results, 3) => win.visible = ~before.visible
            /\ (~before.visible /\ AllOk(results)) => Shown(win))
    /\ [][(/\ IsPress(lastOp) /\ Readable(results) /\ Ok(results, 3)
           /\ IsPress(lastOp') /\ Readable(results') /\ Ok(results', 3))
          => win'.visible = before.visible]_vars

C1_Witness ==
    /\ IsPress(lastOp) /\ AllOk(results) /\ calls = ShowBranch
    /\ ~before.visible /\ before.minimized
    /\ Shown(win)

(* C2: the tray menu item "quit" leaves the process running: it shows the  *)
(* window, then emits one quit-requested event without payload; no tray    *)
(* menu, tray click or shortcut event ends the process, only quit_app.     *)
C2_QuitIsRequestedNotDone ==
    /\ [](IsMenu(lastOp, "quit") =>
            /\ phase = "running" /\ exitCode = <<>>
            /\ calls = IF before.exists
                       THEN Append(ShowCalls, EmitCall("quit-requested", "null"))
                       ELSE <<GetWindow, EmitCall("quit-requested", "null")>>
            /\ Cardinality(Emits(calls)) = 1
            /\ Ok(results, Len(results)) => quitRequested)
    /\ [](lastOp.op \in RuntimeHandlers => phase = "running")
    /\ [][(phase # "exited" /\ phase' = "exited")
          => (lastOp'.op = "quit_app" /\ phase = "running")]_vars

C2_Witness ==
    /\ IsMenu(lastOp, "quit") /\ AllOk(results)
    /\ ~before.visible /\ Shown(win)
    /\ quitRequested /\ phase = "running"

(* C3: quit_app ends the process with exit code 0, whatever the window's   *)
(* state and whether or not quit-requested was emitted; afterwards the     *)
(* window does not change and nothing is emitted.                          *)
C3_QuitAppExits ==
    /\ [](lastOp.op = "quit_app" =>
            phase = "exited" /\ exitCode = <<0>> /\ win = before)
    /\ [](phase = "exited" <=> lastOp.op = "quit_app")
    /\ [][phase = "exited" => UNCHANGED vars]_vars

C3_Witness ==
    /\ lastOp.op = "quit_app" /\ phase = "exited" /\ exitCode = <<0>>
    /\ ~quitRequested
    /\ win.exists /\ win.visible /\ win.minimized

(* C4: the menu item "timer" shows the window and then emits one           *)
(* navigate-to-view event with payload "timer", also when the window is    *)
(* not found; "show" shows the window and emits nothing; any other id      *)
(* changes nothing.                                                        *)
C4_MenuDispatch ==
    /\ [](IsMenu(lastOp, "timer") =>
            /\ calls = IF before.exists
                       THEN Append(ShowCalls,
                                   EmitCall("navigate-to-view", "timer"))
                       ELSE <<GetWindow, EmitCall("navigate-to-view", "timer")>>
            /\ Emits(calls) = {Len(calls)}
            /\ ShowOk(results) => Shown(win))
    /\ [](IsMenu(lastOp, "show") =>
            /\ calls = IF before.exists THEN ShowCalls ELSE <<GetWindow>>
            /\ Emits(calls) = {}
            /\ ShowOk(results) => Shown(win))
    /\ [](IsMenu(lastOp, "other") => calls = <<>> /\ win = before)
    /\ [][IsMenu(lastOp', "other") =>
            UNCHANGED <<phase, exitCode, win, registered, tray,
                        loggerAttached, logOutput, quitRequested>>]_vars

C4_Witness ==
    /\ IsMenu(lastOp, "timer")
    /\ ~before.exists
    /\ calls = <<GetWindow, EmitCall("navigate-to-view", "timer")>>
    /\ results = <<FALSE, TRUE>>

(* C5, as stated: after a tray left click (left button, Up) the window is  *)
(* visible, unminimized and focused, whatever its state before.            *)
C5_LeftClickAlwaysShows ==
    IsLeftClick(lastOp) => Shown(win)

(* C5, amended: a tray left click calls show, unminimize and set_focus on  *)
(* the main window and emits nothing; when the window exists and the three *)
(* calls succeed it is then visible, unminimized and focused. Any other    *)
(* tray icon event leaves the window as it was, and the tray does not open *)
(* its menu on a left click.                                               *)
C5_LeftClickShows ==
    /\ IsLeftClick(lastOp) =>
         /\ calls = IF before.exists THEN ShowCalls ELSE <<GetWindow>>
         /\ Emits(calls) = {}
         /\ ShowOk(results) => Shown(win)
    /\ (lastOp.op = "tray" /\ ~IsLeftClick(lastOp)) =>
         (win = before /\ calls = <<>>)
    /\ tray.built => ~tray.show_menu_on_left_click
    /\ phase = "running" => tray.built

C5_Witness ==
    /\ IsLeftClick(lastOp) /\ ShowOk(results)
    /\ before.exists /\ before.visible /\ before.minimized /\ ~before.focused
    /\ Shown(win)

(* C6: setup clears the shortcut registrations before it registers         *)
(* Ctrl+Shift+A, and neither a failed clearing nor a failed registration   *)
(* ends setup: the steps after them run, and when those succeed the tray   *)
(* icon with its menu show / timer / quit is built and the app runs.       *)
C6_ShortcutFailureNotFatal ==
    /\ lastOp.op = "setup" =>
         /\ Len(calls) > 2
         /\ calls[1] = Call("unregister_all")
         /\ calls[2] = Call("register")
         /\ Ok(results, 1) => registered \subseteq {CtrlShiftA}
         /\ Ok(results, 2) => CtrlShiftA \in registered
         /\ (\A i \in 3..Len(calls) :
                calls[i].fn # "log::warn" => results[i])
            => /\ phase = "running"
               /\ tray.built
               /\ tray.menu = <<"show", "timer", "quit">>
         /\ phase = "setup_failed" =>
              /\ ~results[Len(results)]
              /\ calls[Len(calls)].fn
                    \notin {"unregister_all", "register", "log::warn"}
    /\ phase = "running" => (tray.built /\ tray.menu = <<"show", "timer", "quit">>)

C6_Witness ==
    /\ lastOp.op = "setup"
    /\ ~results[1] /\ ~results[2]
    /\ phase = "running" /\ tray.built
    /\ CtrlShiftA \notin registered

(* C7: when the registration of Ctrl+Shift+A fails during setup, the       *)
(* warning for it reaches the log output: stated for the runs that have a  *)
(* log output at all, those where setup attached the logger and went on to *)
(* run the app.                                                            *)
C7_RegisterFailureIsLogged ==
    (lastOp.op = "setup" /\ ~results[2] /\ loggerAttached
     /\ phase = "running")
    => WarnRegister \in logOutput

(* C8, as stated: a failing window or event call of a runtime handler does *)
(* not end the process and the handler goes on to make the calls it makes  *)
(* when nothing fails.                                                     *)
C8_FailuresChangeNoCall ==
    lastOp.op \in RuntimeHandlers =>
        (phase = "running" /\ calls = Replay(lastOp, before).calls)

(* C8, amended: a failing show, hide, unminimize, set_focus or emit does   *)
(* not end the process and the handler makes the same calls as when        *)
(* nothing fails; a failed is_visible read makes the press a no-op (it     *)
(* calls neither hide nor show); a handler that finds no main window       *)
(* leaves the window alone; setup alone fails on a missing main window.    *)
C8_FailuresSwallowed ==
    /\ lastOp.op \in RuntimeHandlers =>
         /\ phase = "running" /\ exitCode = <<>>
         /\ IF IsPress(lastOp) /\ Ok(results, 1) /\ ~Ok(results, 2)
            THEN calls = <<GetWindow, Call("is_visible")>> /\ win = before
            ELSE calls = Replay(lastOp, before).calls
         /\ ~before.exists => win = before
    /\ (lastOp.op = "setup" /\ ~before.exists) => phase = "setup_failed"

C8_Witness ==
    /\ IsMenu(lastOp, "timer")
    /\ results = <<TRUE, FALSE, TRUE, TRUE, TRUE>>
    /\ ~before.visible /\ ~win.visible /\ win.focused
    /\ phase = "running"

(* C9: the shortcut handler acts only on a Pressed event of Ctrl+Shift+A:  *)
(* a Released event or an event of another shortcut makes no call and      *)
(* leaves the window as it was, so a press followed by its release         *)
(* toggles once.                                                           *)
C9_OnlyPressActs ==
    /\ []((lastOp.op = "shortcut" /\ ~IsPress(lastOp)) =>
            (calls = <<>> /\ win = before))
    /\ [](IsPress(lastOp) => (calls # <<>> /\ calls[1] = GetWindow))
    /\ [][(lastOp'.op = "shortcut" /\ win' # win) => IsPress(lastOp')]_vars
    /\ [][(IsPress(lastOp) /\ lastOp'.op = "shortcut"
           /\ lastOp'.arg = <<CtrlShiftA, "Released">>)
          => (win' = win /\ calls' = <<>>)]_vars

C9_Witness ==
    /\ lastOp.op = "shortcut" /\ lastOp.arg = <<CtrlShiftA, "Released">>
    /\ win.exists /\ ~win.visible /\ win.minimized
    /\ calls = <<>>

(* C10: among the handlers only a Ctrl+Shift+A press on a visible window   *)
(* takes the window from visible to hidden; every tray action whose calls  *)
(* succeed leaves it visible, unminimized and focused, and a second tray   *)
(* show action right after one changes nothing more.                       *)
C10_OnlyPressHides ==
    /\ [][(lastOp'.op \in RuntimeHandlers \cup {"quit_app"}
           /\ win.visible /\ ~win'.visible)
          => (IsPress(lastOp') /\ calls' = HideBranch)]_vars
    /\ []((IsTrayShow(lastOp) /\ ShowOk(results)) => Shown(win))
    /\ [][(/\ IsTrayShow(lastOp) /\ ShowOk(results)
           /\ IsTrayShow(lastOp') /\ ShowOk(results'))
          => win' = win]_vars

C10_Witness ==
    /\ IsTrayShow(lastOp) /\ ShowOk(results)
    /\ Shown(before) /\ win = before

====
